---- MODULE Spec2Model ----
(***************************************************************************)
(* A model of roku-client: the Client class of lib/client.js, the          *)
(* Commander it hands out (lib/commander.js) and discovery                 *)
(* (lib/discover.js).                                                      *)
(*                                                                         *)
(* Strings whose length or characters matter (keys, texts) are sequences   *)
(* of UTF-16 code units, as JavaScript strings are: Len is String.length   *)
(* and s[i] is the code unit at index i-1.                                 *)
(***************************************************************************)
EXTENDS Integers, Sequences, FiniteSets, TLC

\* ------------------------------------------------------------ bounds
\* Longest string handed to Client.text directly.
MaxLen == 3
\* Most chaining calls made on a Commander before send().
MaxChain == 3
\* Most <app> elements in an active-app response.
MaxApps == 2
\* Most body chunks of an icon response.
MaxBody == 2
\* Longest discovery timeout, in clock ticks.
MaxTimeout == 2
\* Most children of a device-info document.
MaxInfo == 2

\* ------------------------------------------------------ input domains
\* 'H', 'i', ' ' and an unpaired high surrogate (half of an emoji).
TextAlphabet == {72, 105, 32, 55357}

RECURSIVE StringsUpTo(_, _)
StringsUpTo(A, n) ==
    IF n = 0 THEN {<< >>}
    ELSE LET S == StringsUpTo(A, n - 1)
         IN  S \cup {Append(s, c) : s \in {t \in S : Len(t) = n - 1}, c \in A}

Texts == StringsUpTo(TextAlphabet, MaxLen)

\* Named key codes of the remote ("Up", "Select", "Home").
KeyUp == <<85, 112>>
KeySelect == <<83, 101, 108, 101, 99, 116>>
KeyHome == <<72, 111, 109, 101>>

\* Keys handed to keypress/keydown/keyup directly: named codes, the empty
\* string, one-unit strings ('a', '~', ' ', '/', e-acute, the euro sign, both
\* kinds of unpaired surrogate) and an emoji, which is two code units.
Keys ==
    {KeyUp, KeySelect, KeyHome, << >>, <<55357, 56832>>, <<97, 98>>}
      \cup {<<c>> : c \in {97, 126, 32, 47, 233, 8364, 55357, 56832}}

Funcs == {"keypress", "keydown", "keyup"}

\* What the device (or the network) does with one request.
StatusTexts == {"Not Found", "Service Unavailable"}

\* ------------------------------------------------------------ errors
Err(name, why, endpoint, statusText) ==
    [name |-> name, why |-> why, endpoint |-> endpoint, statusText |-> statusText]

NoErr == Err("", "", << >>, "")

\* fetch() itself rejecting: no connection, reset, DNS...
FetchError == Err("FetchError", "request failed in transport", << >>, "")

Pending == [state |-> "pending", err |-> NoErr]
Idle == [state |-> "idle", err |-> NoErr]
Resolved == [state |-> "resolved", err |-> NoErr]
Rejected(e) == [state |-> "rejected", err |-> e]
\* A synchronous throw out of the call: no promise was returned.
Threw(e) == [state |-> "threw", err |-> e]

\* ----------------------------------------------- encodeURIComponent
Hex(d) == IF d < 10 THEN 48 + d ELSE 55 + d

Pct(b) == <<37, Hex(b \div 16), Hex(b % 16)>>

\* A-Z a-z 0-9 - _ . ! ~ * ' ( )
Unreserved(c) ==
    \/ c \in 65..90
    \/ c \in 97..122
    \/ c \in 48..57
    \/ c \in {45, 95, 46, 33, 126, 42, 39, 40, 41}

IsHighSurrogate(c) == c \in 55296..56319
IsLowSurrogate(c) == c \in 56320..57343

Utf8(cp) ==
    IF cp < 128 THEN Pct(cp)
    ELSE IF cp < 2048 THEN Pct(192 + (cp \div 64)) \o Pct(128 + (cp % 64))
    ELSE IF cp < 65536
      THEN Pct(224 + (cp \div 4096)) \o Pct(128 + ((cp \div 64) % 64))
             \o Pct(128 + (cp % 64))
    ELSE Pct(240 + (cp \div 262144)) \o Pct(128 + ((cp \div 4096) % 64))
           \o Pct(128 + ((cp \div 64) % 64)) \o Pct(128 + (cp % 64))

\* [ok |-> TRUE, val |-> the encoding], or ok = FALSE where JavaScript throws
\* URIError (an unpaired surrogate).
RECURSIVE encodeURIComponent(_)
encodeURIComponent(s) ==
    IF s = << >> THEN [ok |-> TRUE, val |-> << >>]
    ELSE LET c == Head(s) IN
      IF Unreserved(c)
        THEN LET r == encodeURIComponent(Tail(s))
             IN  [ok |-> r.ok, val |-> <<c>> \o r.val]
      ELSE IF IsLowSurrogate(c) THEN [ok |-> FALSE, val |-> << >>]
      ELSE IF IsHighSurrogate(c)
        THEN IF Len(s) >= 2 /\ IsLowSurrogate(s[2])
               THEN LET r == encodeURIComponent(Tail(Tail(s)))
                        cp == 65536 + (c - 55296) * 1024 + (s[2] - 56320)
                    IN  [ok |-> r.ok, val |-> Utf8(cp) \o r.val]
               ELSE [ok |-> FALSE, val |-> << >>]
      ELSE LET r == encodeURIComponent(Tail(s))
           IN  [ok |-> r.ok, val |-> Utf8(c) \o r.val]

\* encodeURIComponent as a call that may throw: no value comes with a throw.
Encode(s) ==
    LET r == encodeURIComponent(s)
    IN  IF r.ok THEN r ELSE [ok |-> FALSE, val |-> << >>]

\* Chaining calls made on a Commander: the keys, repeat counts (0 is not a
\* positive integer), texts ("", "ok", and 'o' followed by an unpaired
\* surrogate) and pauses used.
CmdKeys == {KeyUp, KeySelect}
RepeatCounts == {0, 1, 3}
CmdTexts == {<< >>, <<111, 107>>, <<111, 55357>>}
WaitMs == {100}

\* ------------------------------------------------------------- state
VARIABLES
    op,        \* the call the caller made on the library ("idle" before it)
    posts,     \* every POST issued so far, in order
    settled,   \* how each settled POST ended, in order (what the device did)
    pending,   \* number of POSTs issued and not yet settled
    kcall,     \* a direct keypress/keydown/keyup call: its arguments
    kres,      \* ... and the promise it returned
    lcall,     \* Client.launch, Client.launchDtv: the method and its argument
    lres,      \* ... and the promise it returned
    presp,     \* Client.apps: the response the device gave
    pres,      \* Client.apps: the promise it returned, and its value
    nresp,     \* Client.info: the response the device gave
    nres,      \* Client.info: the promise it returned, and its value
    txt,       \* Client.text: its argument
    tcalled,   \* Client.text: callbacks of its promise chain that have run
    ti,        \* Client.text: keypress promises of the chain that resolved
    tres,      \* Client.text: the promise it returned
    chain,     \* Commander: the chaining calls that appended, in order
    ncalls,    \* Commander: chaining calls made
    verr,      \* Commander: a chaining call failed with ValidationError
    queue,     \* Commander: the pending actions
    started,   \* Commander.send: the actions started so far, in order
    ai,        \* Commander.send: actions completed
    arun,      \* Commander.send: an action is started and not completed
    waiting,   \* Commander.send: a pause's timer is running
    cres,      \* Commander.send: the promise it returned
    aresp,     \* Client.active: the response the device gave
    ares,      \* Client.active: the promise it returned, and its value
    iresp,     \* Client.icon: the response the device gave
    ires,      \* Client.icon: the promise it returned
    ifile,     \* Client.icon: the temporary file and the stream into it
    dcall,     \* discover: its arguments, and who called it
    dres,      \* discover: the promise it returned, and its value
    sock,      \* discover: the multicast listening socket
    found,     \* discover: the addresses collected, in arrival order
    silent,    \* discover: devices on the network that have not answered yet
    clock,     \* discover: ticks since the search was sent
    marks,     \* discover: the clock at the first response and at settling
    client     \* Client.discover: the Client it resolved with

keyVars == <<kcall, kres>>
textVars == <<txt, tcalled, ti, tres>>
httpVars == <<posts, settled, pending>>
cmdVars == <<chain, ncalls, verr, queue, started, ai, arun, waiting, cres>>

activeVars == <<aresp, ares>>
iconVars == <<iresp, ires, ifile>>
discVars == <<dcall, dres, sock, found, silent, clock, marks, client>>
launchVars == <<lcall, lres>>
appsVars == <<presp, pres>>
infoVars == <<nresp, nres>>
otherVars == <<launchVars, appsVars, infoVars>>
queryVars == <<activeVars, iconVars, discVars, otherVars>>

vars == <<op, httpVars, keyVars, textVars, cmdVars, queryVars>>

\* ------------------------------------------------------ Client (keys)
\* The address the Client was constructed with.
ClientIp == "http://192.168.1.17:8060"

LitPrefix == <<76, 105, 116, 95>>

URIError == Err("URIError", "URI malformed", << >>, "")

\* A faulty keyhelper: the length test dropped, every key made a literal.
KeyhelperKeyAlways(key) ==
    LET e == Encode(key)
    IN  [ok |-> e.ok, val |-> IF e.ok THEN LitPrefix \o e.val ELSE << >>]

\* keyhelper, the key it puts in the endpoint: a key of length 1 becomes
\* Lit_ and its percent-encoding (ok = FALSE where the encoding throws).
KeyhelperKey(key) ==
    IF Len(key) = 1
      THEN LET e == Encode(key)
           IN  [ok |-> e.ok, val |-> IF e.ok THEN LitPrefix \o e.val ELSE << >>]
      ELSE [ok |-> TRUE, val |-> key]

Endpoint(func, key) == [ip |-> ClientIp, func |-> func, key |-> key]

\* What one request can come to: a response that is ok, a response that is
\* not, or fetch rejecting.
Outcomes ==
    {[kind |-> "ok", statusText |-> "OK"], [kind |-> "reject", statusText |-> ""]}
      \cup {[kind |-> "notok", statusText |-> s] : s \in StatusTexts}

\* A faulty .then: res.ok never looked at.
KeyhelperThenNoCheck(o, endpoint) ==
    IF o.kind = "reject" THEN Rejected(FetchError) ELSE Resolved

\* keyhelper's .then on the fetch promise: the promise keyhelper returns.
KeyhelperThen(o, endpoint) ==
    CASE o.kind = "ok" -> Resolved
      [] o.kind = "notok" ->
           Rejected(Err("Error", "Failed to call", <<endpoint>>, o.statusText))
      [] OTHER -> Rejected(FetchError)

\* keyhelper up to the fetch call: the POST goes out.
IssuePost(func, k) ==
    /\ posts' = Append(posts, Endpoint(func, k))
    /\ pending' = pending + 1
    /\ settled' = settled

\* Client.keypress, Client.keydown, Client.keyup called by the user.
CallKey(func, key) ==
    /\ op = "idle"
    /\ op' = "key"
    /\ kcall' = [func |-> func, key |-> key]
    /\ LET k == KeyhelperKey(key) IN
         IF k.ok
           THEN IssuePost(func, k.val) /\ kres' = Pending
           ELSE kres' = Threw(URIError) /\ UNCHANGED httpVars
    /\ UNCHANGED <<textVars, cmdVars>>
    /\ UNCHANGED queryVars

\* --------------------------------------------- Client.launch, launchDtv
\* The values a caller passes for an app id or a channel: a string, a
\* number (a non-negative integer here), or nothing.
JsStr(str) == [t |-> "string", s |-> str, n |-> 0]
JsNum(num) == [t |-> "number", s |-> << >>, n |-> num]
JsUndefined == [t |-> "undefined", s |-> << >>, n |-> 0]

\* "12", "dev" and ""; 12 and 0
AppIds == {JsStr(<<49, 50>>), JsStr(<<100, 101, 118>>), JsStr(<< >>),
           JsNum(12), JsNum(0), JsUndefined}

\* "5.1", "0" and ""; 7 and 0
Channels == {JsStr(<<53, 46, 49>>), JsStr(<<48>>), JsStr(<< >>),
             JsNum(7), JsNum(0), JsUndefined}

\* The decimal digits of a non-negative integer, as code units.
RECURSIVE Digits(_)
Digits(num) ==
    IF num < 10 THEN <<48 + num>> ELSE Digits(num \div 10) \o <<48 + (num % 10)>>

\* ${v} in a template literal: the string form of v.
TemplateString(v) ==
    CASE v.t = "string" -> v.s
      [] v.t = "number" -> Digits(v.n)
      [] OTHER -> <<117, 110, 100, 101, 102, 105, 110, 101, 100>>

\* v ? ... : ... takes the first branch: v is not "", 0 or undefined.
Truthy(v) ==
    CASE v.t = "string" -> v.s # << >>
      [] v.t = "number" -> v.n # 0
      [] OTHER -> FALSE

\* "tvinput.dtv" and "?ch="
TvInputDtv == <<116, 118, 105, 110, 112, 117, 116, 46, 100, 116, 118>>
ChQuery == <<63, 99, 104, 61>>

\* launchDtv's channelQuery.
ChannelQuery(channel) ==
    IF Truthy(channel) THEN ChQuery \o TemplateString(channel) ELSE << >>

\* The .then of launch and of launchDtv on the fetch promise.
LaunchThen(o, endpoint) ==
    CASE o.kind = "ok" -> Resolved
      [] o.kind = "notok" ->
           Rejected(Err("Error", "Failed to call", <<endpoint>>, o.statusText))
      [] OTHER -> Rejected(FetchError)

\* Client.launch called by the user: POST /launch/<appId> goes out.
CallLaunch(appId) ==
    /\ op = "idle"
    /\ op' = "launch"
    /\ lcall' = [method |-> "launch", arg |-> appId]
    /\ IssuePost("launch", TemplateString(appId))
    /\ lres' = Pending
    /\ UNCHANGED <<keyVars, textVars, cmdVars>>
    /\ UNCHANGED <<activeVars, iconVars, discVars, appsVars, infoVars>>

\* Client.launchDtv called by the user: POST /launch/tvinput.dtv goes out,
\* with ?ch=<channel> when a channel is given.
CallLaunchDtv(channel) ==
    /\ op = "idle"
    /\ op' = "launch"
    /\ lcall' = [method |-> "launchDtv", arg |-> channel]
    /\ IssuePost("launch", TvInputDtv \o ChannelQuery(channel))
    /\ lres' = Pending
    /\ UNCHANGED <<keyVars, textVars, cmdVars>>
    /\ UNCHANGED <<activeVars, iconVars, discVars, appsVars, infoVars>>

\* ------------------------------------------------------ Client.text
\* reduce() builds the whole chain of .then callbacks at once, on an already
\* resolved promise.
StartText(s) ==
    /\ txt' = s
    /\ tcalled' = 0
    /\ ti' = 0
    /\ tres' = Pending

\* Client.text called by the user.
CallText ==
    /\ op = "idle"
    /\ op' = "text"
    /\ \E s \in Texts : StartText(s)
    /\ UNCHANGED <<httpVars, keyVars, cmdVars>>
    /\ UNCHANGED queryVars

\* The letter reduce() hands to the i-th callback: a one-unit string.
TextLetter(i) == <<txt[i]>>

\* A faulty chain: the callbacks do not return the keypress promise, so no
\* link waits for its request.
TextMayProceedNoAwait == tcalled < Len(txt)

\* A callback of the chain runs when the promise before it has resolved:
\* each callback returns the keypress promise, so its link resolves with it.
TextMayProceed == tcalled < Len(txt) /\ tcalled = ti

\* The next callback of the chain runs: () => this.keypress(letter). A throw
\* inside it rejects the chain.
TextStep ==
    /\ tres.state = "pending"
    /\ TextMayProceed
    /\ tcalled' = tcalled + 1
    /\ LET k == KeyhelperKey(TextLetter(tcalled + 1)) IN
         IF k.ok
           THEN IssuePost("keypress", k.val) /\ tres' = tres
           ELSE tres' = Rejected(URIError) /\ UNCHANGED httpVars
    /\ UNCHANGED <<op, txt, ti, keyVars, cmdVars>>
    /\ UNCHANGED queryVars

\* A faulty end of chain: done once the last keypress has been called.
TextDoneAtLastCall == tcalled = Len(txt)

\* The last link of the chain has resolved.
TextDone == ti = Len(txt)

\* The promise text returned resolves with the last link of the chain.
TextResolve ==
    /\ tres.state = "pending"
    /\ TextDone
    /\ tres' = Resolved
    /\ UNCHANGED <<op, txt, tcalled, ti, httpVars, keyVars, cmdVars>>
    /\ UNCHANGED queryVars

\* ------------------------------------------------------- Commander
\* Client.command(): a new Commander bound to this client, nothing pending.
Command ==
    /\ op = "idle"
    /\ op' = "command"
    /\ queue' = << >>
    /\ chain' = << >>
    /\ UNCHANGED <<ncalls, verr, started, ai, arun, waiting, cres>>
    /\ UNCHANGED <<httpVars, keyVars, textVars>>
    /\ UNCHANGED queryVars

Action(a, arg, n) == [a |-> a, arg |-> arg, n |-> n]

Repeat(x, n) == [i \in 1..n |-> x]

Building == op = "command" /\ ncalls < MaxChain

\* A key method, e.g. up(n): n keypress actions for its key, after checking
\* that n is a positive integer.
ChainKey(key, n) ==
    /\ Building
    /\ ncalls' = ncalls + 1
    /\ IF n >= 1
         THEN /\ queue' = queue \o Repeat(Action("keypress", key, 0), n)
              /\ chain' = Append(chain, [m |-> "key", arg |-> key, n |-> n])
              /\ verr' = verr
         ELSE /\ verr' = TRUE
              /\ UNCHANGED <<queue, chain>>
    /\ UNCHANGED <<op, started, ai, arun, waiting, cres>>
    /\ UNCHANGED <<httpVars, keyVars, textVars>>
    /\ UNCHANGED queryVars

\* text(str): one action, the client's text operation.
ChainText(s) ==
    /\ Building
    /\ ncalls' = ncalls + 1
    /\ queue' = Append(queue, Action("text", s, 0))
    /\ chain' = Append(chain, [m |-> "text", arg |-> s, n |-> 0])
    /\ UNCHANGED <<op, verr, started, ai, arun, waiting, cres>>
    /\ UNCHANGED <<httpVars, keyVars, textVars>>
    /\ UNCHANGED queryVars

\* wait(ms): one pause action.
ChainWait(ms) ==
    /\ Building
    /\ ncalls' = ncalls + 1
    /\ queue' = Append(queue, Action("wait", << >>, ms))
    /\ chain' = Append(chain, [m |-> "wait", arg |-> << >>, n |-> ms])
    /\ UNCHANGED <<op, verr, started, ai, arun, waiting, cres>>
    /\ UNCHANGED <<httpVars, keyVars, textVars>>
    /\ UNCHANGED queryVars

\* send(): the pending actions start to run.
Send ==
    /\ op = "command"
    /\ op' = "send"
    /\ cres' = Pending
    /\ ai' = 0
    /\ arun' = FALSE
    /\ started' = << >>
    /\ UNCHANGED <<chain, ncalls, verr, queue, waiting>>
    /\ UNCHANGED <<httpVars, keyVars, textVars>>
    /\ UNCHANGED queryVars

Sending == op = "send" /\ cres.state = "pending"

\* The next pending action starts, the one before it having completed.
SendStart ==
    /\ Sending
    /\ ~arun
    /\ ai < Len(queue)
    /\ LET act == queue[ai + 1] IN
         /\ started' = Append(started, act)
         /\ CASE act.a = "keypress" ->
                   LET k == KeyhelperKey(act.arg) IN
                     /\ IF k.ok
                          THEN IssuePost("keypress", k.val)
                                 /\ arun' = TRUE /\ cres' = cres
                          ELSE arun' = FALSE /\ cres' = Rejected(URIError)
                                 /\ UNCHANGED httpVars
                     /\ UNCHANGED <<textVars, waiting>>
              [] act.a = "text" ->
                   /\ StartText(act.arg)
                   /\ arun' = TRUE
                   /\ UNCHANGED <<httpVars, waiting, cres>>
              [] OTHER ->
                   /\ waiting' = TRUE
                   /\ arun' = TRUE
                   /\ UNCHANGED <<httpVars, textVars, cres>>
    /\ UNCHANGED <<op, chain, ncalls, verr, queue, ai, keyVars>>
    /\ UNCHANGED queryVars

\* The text operation an action started has settled: the next action may
\* start, or send fails with the text's error.
SendAfterText ==
    /\ Sending
    /\ arun
    /\ queue[ai + 1].a = "text"
    /\ tres.state \in {"resolved", "rejected"}
    /\ IF tres.state = "resolved"
         THEN ai' = ai + 1 /\ cres' = cres
         ELSE ai' = ai /\ cres' = Rejected(tres.err)
    /\ arun' = FALSE
    /\ UNCHANGED <<op, chain, ncalls, verr, queue, started, waiting>>
    /\ UNCHANGED <<httpVars, keyVars, textVars>>
    /\ UNCHANGED queryVars

\* A pause ends.
TimerFires ==
    /\ Sending
    /\ waiting
    /\ waiting' = FALSE
    /\ arun' = FALSE
    /\ ai' = ai + 1
    /\ UNCHANGED <<op, chain, ncalls, verr, queue, started, cres>>
    /\ UNCHANGED <<httpVars, keyVars, textVars>>
    /\ UNCHANGED queryVars

\* The last action has completed.
SendResolve ==
    /\ Sending
    /\ ~arun
    /\ ai = Len(queue)
    /\ cres' = Resolved
    /\ UNCHANGED <<op, chain, ncalls, verr, queue, started, ai, arun, waiting>>
    /\ UNCHANGED <<httpVars, keyVars, textVars>>
    /\ UNCHANGED queryVars

\* ---------------------------------------------------- Client.active
\* An <app> element of the response: its attributes and its text.
AttrNames == {"id", "type", "version"}

AttrValues(n) ==
    CASE n = "id" -> {"", "12"}
      [] n = "type" -> {"appl"}
      [] OTHER -> {"4.1"}

AttrMaps ==
    {f \in UNION {[S -> {"", "12", "appl", "4.1"}] : S \in SUBSET AttrNames} :
       \A n \in DOMAIN f : f[n] \in AttrValues(n)}

AppElements == {[attrs |-> f, text |-> t] : f \in AttrMaps, t \in {"", "Netflix"}}

\* The <active-app> documents: up to MaxApps <app> children.
Docs == UNION {[1..n -> AppElements] : n \in 0..MaxApps}

Response(kind, statusText, wellformed, doc) ==
    [kind |-> kind, statusText |-> statusText, wellformed |-> wellformed, doc |-> doc]

ActiveResponses ==
    {Response("reject", "", FALSE, << >>), Response("ok", "OK", FALSE, << >>)}
      \cup {Response("notok", t, FALSE, << >>) : t \in StatusTexts}
      \cup {Response("ok", "OK", TRUE, d) : d \in Docs}

\* undefined, and a defined value.
Undefined == << >>
Some(v) == <<v>>

\* What xml2js makes of one element: a bare string when the element has no
\* attributes, else an object with $ (the attributes) and, when the element
\* has text, _ (the text).
Xml2jsElement(e) ==
    IF DOMAIN e.attrs = {}
      THEN [isString |-> TRUE, str |-> e.text, attrs |-> e.attrs,
            hasText |-> FALSE, text |-> ""]
      ELSE [isString |-> FALSE, str |-> "", attrs |-> e.attrs,
            hasText |-> e.text # "", text |-> e.text]

\* data['active-app']: children are grouped by tag into arrays, so without an
\* <app> child there is no app key at all.
Xml2jsActiveApp(doc) ==
    [hasApp |-> doc # << >>, app |-> [i \in 1..Len(doc) |-> Xml2jsElement(doc[i])]]

NoValue == [null |-> FALSE, app |-> [id |-> Undefined, name |-> Undefined,
                                       type |-> Undefined, version |-> Undefined]]

Settled(state, e, value) == [state |-> state, err |-> e, value |-> value]

\* parseXML: the promise of the parsed tree of a fetch response.
parseXML(res) ==
    CASE res.kind = "notok" ->
           [ok |-> FALSE, err |-> Err("Error", "Request failed", << >>, res.statusText),
            data |-> Xml2jsActiveApp(<< >>)]
      [] ~res.wellformed ->
           [ok |-> FALSE, err |-> Err("Error", "xml parse error", << >>, ""),
            data |-> Xml2jsActiveApp(<< >>)]
      [] OTHER -> [ok |-> TRUE, err |-> NoErr, data |-> Xml2jsActiveApp(res.doc)]

\* app.$.x: undefined when the element has no such attribute.
Attr(app, n) == IF n \in DOMAIN app.attrs THEN Some(app.attrs[n]) ELSE Undefined

\* A faulty appXMLToJS: the name read from the wrong place.
appXMLToJSNameFromId(app) ==
    [id |-> Attr(app, "id"), name |-> Attr(app, "id"),
     type |-> Attr(app, "type"), version |-> Attr(app, "version")]

\* appXMLToJS, on an element that has attributes.
appXMLToJS(app) ==
    [id |-> Attr(app, "id"),
     name |-> IF app.hasText THEN Some(app.text) ELSE Undefined,
     type |-> Attr(app, "type"),
     version |-> Attr(app, "version")]

\* !activeApp.$ || !activeApp.$.id
NoActiveApp(activeApp) ==
    \/ activeApp.isString
    \/ "id" \notin DOMAIN activeApp.attrs
    \/ activeApp.attrs["id"] = ""

\* The callback active() runs on the parsed tree.
ActiveThen(data) ==
    IF ~data.hasApp
      THEN \* app is undefined: reading app.length throws
           Settled("rejected", Err("TypeError", "cannot read length of undefined", << >>, ""),
                   NoValue)
    ELSE IF Len(data.app) # 1
      THEN Settled("rejected", Err("Error", "expected 1 active app", << >>, ""), NoValue)
    ELSE IF NoActiveApp(data.app[1])
      THEN Settled("resolved", NoErr, [null |-> TRUE, app |-> NoValue.app])
    ELSE Settled("resolved", NoErr, [null |-> FALSE, app |-> appXMLToJS(data.app[1])])

\* Client.active called by the user: GET /query/active-app goes out.
CallActive ==
    /\ op = "idle"
    /\ op' = "active"
    /\ ares' = Settled("pending", NoErr, NoValue)
    /\ aresp' = aresp
    /\ UNCHANGED <<httpVars, keyVars, textVars, cmdVars, otherVars,
                 iconVars, discVars>>

\* The promise active() returns, given how the request settles: the chain
\* fetch -> parseXML -> callback.
ActiveChain(res) ==
    IF res.kind = "reject" THEN Settled("rejected", FetchError, NoValue)
    ELSE LET x == parseXML(res)
         IN  IF x.ok THEN ActiveThen(x.data) ELSE Settled("rejected", x.err, NoValue)

\* The request settles and the chain runs.
ActiveResponds ==
    /\ op = "active"
    /\ ares.state = "pending"
    /\ \E res \in ActiveResponses :
         /\ aresp' = res
         /\ ares' = ActiveChain(res)
    /\ UNCHANGED <<op, httpVars, keyVars, textVars, cmdVars, otherVars,
                 iconVars, discVars>>

\* ------------------------------------------------------ Client.apps
\* The <apps> documents are the ones of <active-app>: up to MaxApps <app>
\* children; the value of the promise is the list of their records.
AppsResponses == ActiveResponses

NoApps == << >>

\* The callback apps() runs on the parsed tree: apps.app.map(appXMLToJS).
AppsThen(data) ==
    IF ~data.hasApp
      THEN \* apps.app is undefined: calling map on it throws
           Settled("rejected", Err("TypeError", "cannot read map of undefined", << >>, ""),
                   NoApps)
    ELSE IF \E i \in 1..Len(data.app) : data.app[i].isString
      THEN \* an <app> without attributes has no $: appXMLToJS throws
           Settled("rejected", Err("TypeError", "cannot destructure undefined", << >>, ""),
                   NoApps)
    ELSE Settled("resolved", NoErr, [i \in 1..Len(data.app) |-> appXMLToJS(data.app[i])])

\* Client.apps called by the user: GET /query/apps goes out.
CallApps ==
    /\ op = "idle"
    /\ op' = "apps"
    /\ pres' = Settled("pending", NoErr, NoApps)
    /\ presp' = presp
    /\ UNCHANGED <<httpVars, keyVars, textVars, cmdVars, launchVars, infoVars>>
    /\ UNCHANGED <<activeVars, iconVars, discVars>>

\* The promise apps() returns: the chain fetch -> parseXML -> callback.
AppsChain(res) ==
    IF res.kind = "reject" THEN Settled("rejected", FetchError, NoApps)
    ELSE LET x == parseXML(res)
         IN  IF x.ok THEN AppsThen(x.data) ELSE Settled("rejected", x.err, NoApps)

\* The request settles and the chain runs.
AppsResponds ==
    /\ op = "apps"
    /\ pres.state = "pending"
    /\ \E res \in AppsResponses :
         /\ presp' = res
         /\ pres' = AppsChain(res)
    /\ UNCHANGED <<op, httpVars, keyVars, textVars, cmdVars, launchVars, infoVars>>
    /\ UNCHANGED <<activeVars, iconVars, discVars>>

\* ------------------------------------------------------ Client.info
\* A <device-info> document: whether the root element has attributes, and
\* its children, each a tag (code units) and its text.  The tags:
\* user-device-name, model_name, udn, userDeviceName, ecp2-version,
\* supportsURLs, XMLVersion.
InfoTags ==
    {<<117, 115, 101, 114, 45, 100, 101, 118, 105, 99, 101, 45, 110, 97, 109, 101>>,
     <<109, 111, 100, 101, 108, 95, 110, 97, 109, 101>>,
     <<117, 100, 110>>,
     <<117, 115, 101, 114, 68, 101, 118, 105, 99, 101, 78, 97, 109, 101>>,
     <<101, 99, 112, 50, 45, 118, 101, 114, 115, 105, 111, 110>>,
     <<115, 117, 112, 112, 111, 114, 116, 115, 85, 82, 76, 115>>,
     <<88, 77, 76, 86, 101, 114, 115, 105, 111, 110>>}

InfoTexts == {"", "Roku", "Den"}

InfoElements == {[tag |-> t, text |-> x] : t \in InfoTags, x \in InfoTexts}

InfoDocs ==
    {[rootAttrs |-> a, children |-> c] :
       a \in BOOLEAN, c \in UNION {[1..n -> InfoElements] : n \in 0..MaxInfo}}

NoInfoDoc == [rootAttrs |-> FALSE, children |-> << >>]

InfoResponses ==
    {Response("reject", "", FALSE, NoInfoDoc), Response("ok", "OK", FALSE, NoInfoDoc)}
      \cup {Response("notok", t, FALSE, NoInfoDoc) : t \in StatusTexts}
      \cup {Response("ok", "OK", TRUE, d) : d \in InfoDocs}

\* The distinct members of a sequence, in the order they first appear.
RECURSIVE Distinct(_)
Distinct(seq) ==
    IF seq = << >> THEN << >>
    ELSE LET before == Distinct(SubSeq(seq, 1, Len(seq) - 1))
             last == seq[Len(seq)]
         IN  IF \E i \in 1..Len(before) : before[i] = last
               THEN before ELSE Append(before, last)

\* The texts of the children with the given tag, in document order.
SelectTexts(children, tag) ==
    LET at == {i \in 1..Len(children) : children[i].tag = tag}
        F[i \in 0..Len(children)] ==
            IF i = 0 THEN << >>
            ELSE IF i \in at THEN Append(F[i - 1], children[i].text) ELSE F[i - 1]
    IN  F[Len(children)]

\* data['device-info'] as xml2js builds it: the attributes under $ (set
\* first), then one key per child tag in order of first appearance, each
\* holding the array of the values of the children with that tag.
Xml2jsDeviceInfo(doc) ==
    LET tags == Distinct([i \in 1..Len(doc.children) |-> doc.children[i].tag])
    IN  [hasDollar |-> doc.rootAttrs,
         keys |-> tags,
         vals |-> [k \in {tags[i] : i \in 1..Len(tags)} |->
                     SelectTexts(doc.children, k)]]

\* parseXML on a device-info response.
parseInfoXML(res) ==
    CASE res.kind = "notok" ->
           [ok |-> FALSE, err |-> Err("Error", "Request failed", << >>, res.statusText),
            data |-> Xml2jsDeviceInfo(NoInfoDoc)]
      [] ~res.wellformed ->
           [ok |-> FALSE, err |-> Err("Error", "xml parse error", << >>, ""),
            data |-> Xml2jsDeviceInfo(NoInfoDoc)]
      [] OTHER -> [ok |-> TRUE, err |-> NoErr, data |-> Xml2jsDeviceInfo(res.doc)]

\* lodash.camelcase on a key of ASCII letters, digits and separators.
Lower == 97..122
Upper == 65..90
Digit == 48..57

Max(S) == CHOOSE x \in S : \A y \in S : y <= x

\* How many characters from position from on are in class C.
RunLen(str, from, C) ==
    Max({k \in 0..(Len(str) - from + 1) :
           \A i \in from..(from + k - 1) : str[i] \in C})

\* The length of the word that starts at the head of str; 0 when the head
\* is a separator.  A run of lower case letters is a word, with one upper
\* case letter before it; a run of upper case letters is a word, without
\* its last letter when a lower case letter follows; a run of digits is a
\* word.
WordLen(str) ==
    CASE str[1] \in Lower -> RunLen(str, 1, Lower)
      [] str[1] \in Digit -> RunLen(str, 1, Digit)
      [] str[1] \in Upper ->
           LET n == RunLen(str, 1, Upper)
           IN  IF n < Len(str) /\ str[n + 1] \in Lower
                 THEN IF n = 1 THEN 1 + RunLen(str, 2, Lower) ELSE n - 1
                 ELSE n
      [] OTHER -> 0

RECURSIVE Words(_)
Words(str) ==
    IF str = << >> THEN << >>
    ELSE LET n == WordLen(str)
         IN  IF n = 0 THEN Words(Tail(str))
             ELSE <<SubSeq(str, 1, n)>> \o Words(SubSeq(str, n + 1, Len(str)))

ToLowerCase(str) ==
    [i \in 1..Len(str) |-> IF str[i] \in Upper THEN str[i] + 32 ELSE str[i]]

\* The word in lower case with its first letter in upper case.
Capitalize(str) ==
    LET l == ToLowerCase(str)
    IN  [i \in 1..Len(l) |-> IF i = 1 /\ l[i] \in Lower THEN l[i] - 32 ELSE l[i]]

\* The words joined: the first in lower case, the others capitalized.
camelcase(key) ==
    LET w == Words(key)
        F[i \in 0..Len(w)] ==
            IF i = 0 THEN << >>
            ELSE F[i - 1] \o (IF i = 1 THEN ToLowerCase(w[i]) ELSE Capitalize(w[i]))
    IN  F[Len(w)]

NoInfo == << >>

\* reduce over the first i keys of device-info: each key's first value goes
\* in under the camel-cased key, over whatever was there.
RECURSIVE InfoReduce(_, _)
InfoReduce(obj, i) ==
    IF i = 0 THEN NoInfo
    ELSE LET result == InfoReduce(obj, i - 1)
             key == camelcase(obj.keys[i])
             value == obj.vals[obj.keys[i]][1]
         IN  [c \in DOMAIN result \cup {key} |-> IF c = key THEN value ELSE result[c]]

\* The callback info() runs on the parsed tree.
InfoThen(data) ==
    IF data.hasDollar
      THEN \* the value under $ is no array: taking [value] out of it throws
           Settled("rejected", Err("TypeError", "object is not iterable", << >>, ""), NoInfo)
      ELSE Settled("resolved", NoErr, InfoReduce(data, Len(data.keys)))

\* Client.info called by the user: GET /query/device-info goes out.
CallInfo ==
    /\ op = "idle"
    /\ op' = "info"
    /\ nres' = Settled("pending", NoErr, NoInfo)
    /\ nresp' = nresp
    /\ UNCHANGED <<httpVars, keyVars, textVars, cmdVars, launchVars, appsVars>>
    /\ UNCHANGED <<activeVars, iconVars, discVars>>

\* The promise info() returns: the chain fetch -> parseXML -> callback.
InfoChain(res) ==
    IF res.kind = "reject" THEN Settled("rejected", FetchError, NoInfo)
    ELSE LET x == parseInfoXML(res)
         IN  IF x.ok THEN InfoThen(x.data) ELSE Settled("rejected", x.err, NoInfo)

\* The request settles and the chain runs.
InfoResponds ==
    /\ op = "info"
    /\ nres.state = "pending"
    /\ \E res \in InfoResponses :
         /\ nresp' = res
         /\ nres' = InfoChain(res)
    /\ UNCHANGED <<op, httpVars, keyVars, textVars, cmdVars, launchVars, appsVars>>
    /\ UNCHANGED <<activeVars, iconVars, discVars>>

\* ------------------------------------------------------ Client.icon
\* The content-type header: absent (headers.get gives null), or its value.
NoHeader == [present |-> FALSE, value |-> << >>]
Header(v) == [present |-> TRUE, value |-> v]

\* image/png, text/html, application/x-image/png, image/ and
\* image/svg+xml; charset=utf-8
ContentTypes ==
    {NoHeader,
     Header(<<105, 109, 97, 103, 101, 47, 112, 110, 103>>),
     Header(<<116, 101, 120, 116, 47, 104, 116, 109, 108>>),
     Header(<<97, 112, 112, 108, 105, 99, 97, 116, 105, 111, 110, 47, 120, 45,
              105, 109, 97, 103, 101, 47, 112, 110, 103>>),
     Header(<<105, 109, 97, 103, 101, 47>>),
     Header(<<105, 109, 97, 103, 101, 47, 115, 118, 103, 43, 120, 109, 108, 59, 32,
              99, 104, 97, 114, 115, 101, 116, 61, 117, 116, 102, 45, 56>>)}

IconResponses ==
    {[kind |-> "reject", statusText |-> "", ctype |-> NoHeader, chunks |-> 0]}
      \cup {[kind |-> "notok", statusText |-> t, ctype |-> NoHeader, chunks |-> 0] :
              t \in StatusTexts}
      \cup {[kind |-> "ok", statusText |-> "OK", ctype |-> c, chunks |-> n] :
              c \in ContentTypes, n \in 0..MaxBody}

\* "image/"
ImageSlash == <<105, 109, 97, 103, 101, 47>>

\* The places where needle occurs in s.
Occurrences(needle, s) ==
    {i \in 1..(Len(s) - Len(needle) + 1) : SubSeq(s, i, i + Len(needle) - 1) = needle}

Min(S) == CHOOSE x \in S : \A y \in S : x <= y

\* The characters . does not match: \n, \r, U+2028, U+2029.
IsLineTerminator(c) == c \in {10, 13, 8232, 8233}

\* (.*) from the start of s: as far as the first line terminator.
DotStar(s) ==
    LET stops == {i \in 1..Len(s) : IsLineTerminator(s[i])}
    IN  IF stops = {} THEN s ELSE SubSeq(s, 1, Min(stops) - 1)

\* /image\/(.*)/.exec(type): the leftmost "image/" anywhere in the header
\* and what follows it on the line; null when there is none (a null type is
\* searched as the string "null").
ImageExt(ctype) ==
    LET type == IF ctype.present THEN ctype.value ELSE <<110, 117, 108, 108>>
        at == Occurrences(ImageSlash, type)
    IN  IF at = {} THEN [matched |-> FALSE, ext |-> << >>]
        ELSE [matched |-> TRUE,
              ext |-> DotStar(SubSeq(type, Min(at) + Len(ImageSlash), Len(type)))]

\* The name tmp gives the file: in the temporary directory ("/tmp/tmp-" and
\* a random part), ending in the postfix "." and the extension.
TmpPath(ext) == <<47, 116, 109, 112, 47, 116, 109, 112, 45>> \o <<46>> \o ext

NoFile == [path |-> << >>, stream |-> "none", written |-> 0]

\* Client.icon called by the user: GET /query/icon/{appId} goes out.
CallIcon ==
    /\ op = "idle"
    /\ op' = "icon"
    /\ ires' = [state |-> "pending", err |-> NoErr, path |-> << >>, at |-> "fetch"]
    /\ UNCHANGED <<iresp, ifile>>
    /\ UNCHANGED <<httpVars, keyVars, textVars, cmdVars, otherVars,
                 activeVars, discVars>>

\* The request settles: the callback checks res.ok, reads the extension off
\* the content-type and asks tmp for a file.
IconResponds(res) ==
    /\ op = "icon"
    /\ ires.state = "pending" /\ ires.at = "fetch"
    /\ iresp' = res
    /\ ires' =
         CASE res.kind = "reject" ->
                [state |-> "rejected", err |-> FetchError, path |-> << >>, at |-> "done"]
           [] res.kind = "notok" ->
                [state |-> "rejected",
                 err |-> Err("Error", "Failed to fetch icon", << >>, res.statusText),
                 path |-> << >>, at |-> "done"]
           [] ~ImageExt(res.ctype).matched ->
                \* destructuring the null match throws in the executor
                [state |-> "rejected",
                 err |-> Err("TypeError", "exec result is null", << >>, ""),
                 path |-> << >>, at |-> "done"]
           [] OTHER -> [ires EXCEPT !.at = "tmp"]
    /\ ifile' = ifile
    /\ UNCHANGED <<op, httpVars, keyVars, textVars, cmdVars, otherVars,
                 activeVars, discVars>>

\* tmp.file's callback: on an error the promise rejects; otherwise the body
\* is piped into the file and the promise resolves with the path at once.
IconTmpFile(failed) ==
    /\ op = "icon"
    /\ ires.state = "pending" /\ ires.at = "tmp"
    /\ IF failed
         THEN /\ ires' = [state |-> "rejected",
                          err |-> Err("Error", "tmp file error", << >>, ""),
                          path |-> << >>, at |-> "done"]
              /\ ifile' = ifile
         ELSE /\ ifile' = [path |-> TmpPath(ImageExt(iresp.ctype).ext),
                           stream |-> "piping", written |-> 0]
              /\ ires' = [state |-> "resolved", err |-> NoErr,
                          path |-> TmpPath(ImageExt(iresp.ctype).ext), at |-> "done"]
    /\ iresp' = iresp
    /\ UNCHANGED <<op, httpVars, keyVars, textVars, cmdVars, otherVars,
                 activeVars, discVars>>

\* The pipe moves one chunk of the body into the file.
IconWriteChunk ==
    /\ op = "icon"
    /\ ifile.stream = "piping"
    /\ ifile.written < iresp.chunks
    /\ ifile' = [ifile EXCEPT !.written = @ + 1]
    /\ UNCHANGED <<op, iresp, ires>>
    /\ UNCHANGED <<httpVars, keyVars, textVars, cmdVars, otherVars,
                 activeVars, discVars>>

\* The body has ended and the file stream has finished.
IconStreamFinish ==
    /\ op = "icon"
    /\ ifile.stream = "piping"
    /\ ifile.written = iresp.chunks
    /\ ifile' = [ifile EXCEPT !.stream = "finished"]
    /\ UNCHANGED <<op, iresp, ires>>
    /\ UNCHANGED <<httpVars, keyVars, textVars, cmdVars, otherVars,
                 activeVars, discVars>>

\* The body or the file stream emits an error while piping: nothing listens.
IconStreamError ==
    /\ op = "icon"
    /\ ifile.stream = "piping"
    /\ ifile' = [ifile EXCEPT !.stream = "failed"]
    /\ UNCHANGED <<op, iresp, ires>>
    /\ UNCHANGED <<httpVars, keyVars, textVars, cmdVars, otherVars,
                 activeVars, discVars>>

\* --------------------------------------------------------- discover
\* The devices that may be on the network.
Addrs == {"http://192.168.1.17:8060", "http://192.168.1.18:8060"}

NoResult == [kind |-> "none", addrs |-> << >>]
NoMarks == [first |-> -1, done |-> -1]
NoClient == [made |-> FALSE, ip |-> NoResult]

NoDevicesFoundError == Err("NoDevicesFoundError", "no devices found", << >>, "")
TransportError == Err("TransportError", "multicast search failed", << >>, "")

Listening == op = "discover" /\ dres.state = "pending"

\* discover(timeoutMs, waitForAll): the socket opens and the search goes out.
StartDiscover(t, w, via, devices) ==
    /\ dcall' = [timeout |-> t, waitForAll |-> w, via |-> via]
    /\ dres' = Settled("pending", NoErr, NoResult)
    /\ sock' = "open"
    /\ found' = << >>
    /\ silent' = devices
    /\ clock' = 0
    /\ marks' = NoMarks
    /\ client' = NoClient

\* discover called by the user.
CallDiscover(t, w, devices) ==
    /\ op = "idle"
    /\ op' = "discover"
    /\ StartDiscover(t, w, "user", devices)
    /\ UNCHANGED <<httpVars, keyVars, textVars, cmdVars, otherVars,
                 activeVars, iconVars>>

\* A faulty Client.discover: it asks discovery to wait for every device.
ClientDiscoverWaitsForAll == TRUE

\* Client.discover passes the timeout alone: waitForAll takes its default.
ClientDiscoverWaitForAll == FALSE

\* Client.discover(timeout) called by the user.
CallClientDiscover(t, devices) ==
    /\ op = "idle"
    /\ op' = "discover"
    /\ StartDiscover(t, ClientDiscoverWaitForAll, "client", devices)
    /\ UNCHANGED <<httpVars, keyVars, textVars, cmdVars, otherVars,
                 activeVars, iconVars>>

\* A faulty first-response path: the socket is left as it was.
SockAfterFirstLeftOpen == "open"

\* The socket once discovery is satisfied by a first response.
SockAfterFirst == "closed"

\* A device answers the search.
DeviceResponds(a) ==
    /\ Listening
    /\ a \in silent
    /\ silent' = silent \ {a}
    /\ found' = Append(found, a)
    /\ IF dcall.waitForAll
         THEN /\ marks' = IF found = << >> THEN [marks EXCEPT !.first = clock] ELSE marks
              /\ UNCHANGED <<dres, sock>>
         ELSE /\ marks' = [first |-> clock, done |-> clock]
              /\ dres' = Settled("resolved", NoErr, [kind |-> "single", addrs |-> <<a>>])
              /\ sock' = SockAfterFirst
    /\ UNCHANGED <<op, dcall, clock, client>>
    /\ UNCHANGED <<httpVars, keyVars, textVars, cmdVars, otherVars,
                 activeVars, iconVars>>

\* Time passes within the window.
Tick ==
    /\ Listening
    /\ clock < dcall.timeout
    /\ clock' = clock + 1
    /\ UNCHANGED <<op, dcall, dres, sock, found, silent, marks, client>>
    /\ UNCHANGED <<httpVars, keyVars, textVars, cmdVars, otherVars,
                 activeVars, iconVars>>

\* A faulty timeout: whatever was collected is returned in either mode.
AtTimeoutAlwaysList ==
    Settled("resolved", NoErr, [kind |-> "list", addrs |-> found])

\* What discovery settles with when the window closes.
AtTimeout ==
    IF dcall.waitForAll
      THEN Settled("resolved", NoErr, [kind |-> "list", addrs |-> found])
      ELSE Settled("rejected", NoDevicesFoundError, NoResult)

\* The timeout elapses: the socket closes and discovery settles.
TimeoutElapses ==
    /\ Listening
    /\ clock = dcall.timeout
    /\ dres' = AtTimeout
    /\ sock' = "closed"
    /\ marks' = [marks EXCEPT !.done = clock]
    /\ UNCHANGED <<op, dcall, found, silent, clock, client>>
    /\ UNCHANGED <<httpVars, keyVars, textVars, cmdVars, otherVars,
                 activeVars, iconVars>>

\* The transport fails while listening: the socket closes and discovery
\* fails with the transport's error.
TransportFails ==
    /\ Listening
    /\ dres' = Settled("rejected", TransportError, NoResult)
    /\ sock' = "closed"
    /\ marks' = [marks EXCEPT !.done = clock]
    /\ UNCHANGED <<op, dcall, found, silent, clock, client>>
    /\ UNCHANGED <<httpVars, keyVars, textVars, cmdVars, otherVars,
                 activeVars, iconVars>>

\* Client.discover's .then(ip => new Client(ip)).
ClientDiscoverThen ==
    /\ op = "discover"
    /\ dcall.via = "client"
    /\ dres.state = "resolved"
    /\ ~client.made
    /\ client' = [made |-> TRUE, ip |-> dres.value]
    /\ UNCHANGED <<op, dcall, dres, sock, found, silent, clock, marks>>
    /\ UNCHANGED <<httpVars, keyVars, textVars, cmdVars, otherVars,
                 activeVars, iconVars>>

\* ------------------------------------------------------- the network
\* A pending POST settles with outcome o and the promise keyhelper returned
\* settles with it; whoever awaits that promise goes on.
FetchSettles(o) ==
    /\ pending > 0
    /\ pending' = pending - 1
    /\ settled' = Append(settled, o)
    /\ posts' = posts
    /\ LET r == KeyhelperThen(o, posts[Len(settled) + 1]) IN
         CASE tres.state = "pending" ->
                /\ IF r.state = "resolved"
                     THEN ti' = ti + 1 /\ tres' = tres
                     ELSE ti' = ti /\ tres' = r
                /\ UNCHANGED <<op, txt, tcalled, keyVars, cmdVars, launchVars>>
           [] op = "key" /\ kres.state = "pending" ->
                /\ kres' = r
                /\ UNCHANGED <<op, kcall, textVars, cmdVars, launchVars>>
           [] op = "launch" /\ lres.state = "pending" ->
                /\ lres' = LaunchThen(o, posts[Len(settled) + 1])
                /\ UNCHANGED <<op, lcall, keyVars, textVars, cmdVars>>
           [] Sending /\ arun /\ queue[ai + 1].a = "keypress" ->
                /\ IF r.state = "resolved"
                     THEN ai' = ai + 1 /\ cres' = cres
                     ELSE ai' = ai /\ cres' = r
                /\ arun' = FALSE
                /\ UNCHANGED <<op, chain, ncalls, verr, queue, started, waiting>>
                /\ UNCHANGED <<keyVars, textVars, launchVars>>
           [] OTHER -> UNCHANGED <<op, keyVars, textVars, cmdVars, launchVars>>
    /\ UNCHANGED <<activeVars, iconVars, discVars, appsVars, infoVars>>

\* ------------------------------------------------------ specification
Init ==
    /\ op = "idle"
    /\ posts = << >>
    /\ settled = << >>
    /\ pending = 0
    /\ kcall = [func |-> "", key |-> << >>]
    /\ kres = Idle
    /\ lcall = [method |-> "", arg |-> JsUndefined]
    /\ lres = Idle
    /\ txt = << >>
    /\ tcalled = 0
    /\ ti = 0
    /\ tres = Idle
    /\ chain = << >>
    /\ ncalls = 0
    /\ verr = FALSE
    /\ queue = << >>
    /\ started = << >>
    /\ ai = 0
    /\ arun = FALSE
    /\ waiting = FALSE
    /\ cres = Idle
    /\ aresp = Response("none", "", FALSE, << >>)
    /\ ares = Settled("idle", NoErr, NoValue)
    /\ presp = Response("none", "", FALSE, << >>)
    /\ pres = Settled("idle", NoErr, NoApps)
    /\ nresp = Response("none", "", FALSE, NoInfoDoc)
    /\ nres = Settled("idle", NoErr, NoInfo)
    /\ iresp = [kind |-> "none", statusText |-> "",
                ctype |-> NoHeader, chunks |-> 0]
    /\ ires = [state |-> "idle", err |-> NoErr, path |-> << >>, at |-> "idle"]
    /\ ifile = NoFile
    /\ dcall = [timeout |-> 0, waitForAll |-> FALSE, via |-> "none"]
    /\ dres = Settled("idle", NoErr, NoResult)
    /\ sock = "closed"
    /\ found = << >>
    /\ silent = {}
    /\ clock = 0
    /\ marks = NoMarks
    /\ client = NoClient

Next ==
    \/ \E f \in Funcs, k \in Keys : CallKey(f, k)
    \/ \E appId \in AppIds : CallLaunch(appId)
    \/ \E channel \in Channels : CallLaunchDtv(channel)
    \/ CallText
    \/ TextStep
    \/ TextResolve
    \/ Command
    \/ \E k \in CmdKeys, n \in RepeatCounts : ChainKey(k, n)
    \/ \E s \in CmdTexts : ChainText(s)
    \/ \E ms \in WaitMs : ChainWait(ms)
    \/ Send
    \/ SendStart
    \/ SendAfterText
    \/ TimerFires
    \/ SendResolve
    \/ \E o \in Outcomes : FetchSettles(o)
    \/ CallActive
    \/ ActiveResponds
    \/ CallApps
    \/ AppsResponds
    \/ CallInfo
    \/ InfoResponds
    \/ CallIcon
    \/ \E r \in IconResponses : IconResponds(r)
    \/ \E failed \in BOOLEAN : IconTmpFile(failed)
    \/ IconWriteChunk
    \/ IconStreamFinish
    \/ IconStreamError
    \/ \E t \in 1..MaxTimeout, w \in BOOLEAN, d \in SUBSET Addrs : CallDiscover(t, w, d)
    \/ \E t \in 1..MaxTimeout, d \in SUBSET Addrs : CallClientDiscover(t, d)
    \/ \E a \in Addrs : DeviceResponds(a)
    \/ Tick
    \/ TimeoutElapses
    \/ TransportFails
    \/ ClientDiscoverThen

Spec == Init /\ [][Next]_vars

\* ------------------------------------------------------------ claims
\* What the claims compare the model with is written out here on its own,
\* not taken from the operators above.

IsSurrogate(c) == c \in 55296..57343

\* Lit_ followed by the percent-encoded character.
LitOf(c) == <<76, 105, 116, 95>> \o encodeURIComponent(<<c>>).val

KeypressPost(key) == [ip |-> ClientIp, func |-> "keypress", key |-> key]

\* The error a failed request gives the promise that awaited it.
ErrIsOf(e, o, post) ==
    IF o.kind = "notok"
      THEN e.name = "Error" /\ e.why = "Failed to call"
             /\ e.endpoint = <<post>> /\ e.statusText = o.statusText
      ELSE e.name = "FetchError"

AllOk(n) == n <= Len(settled) /\ \A i \in 1..n : settled[i].kind = "ok"

\* C1: Client.text(str) issues one keypress request per character of str, in
\* character order, never more than one in flight, request k+1 only once
\* request k has completed successfully; it resolves only after the last
\* keypress has completed; and when the keypress for character k fails, text
\* fails with that error and nothing is issued for any later character.
C1_TextSequential ==
    op = "text" =>
      /\ Len(posts) <= Len(txt)
      /\ \A i \in 1..Len(posts) : posts[i] = KeypressPost(LitOf(txt[i]))
      /\ pending <= 1
      /\ Len(posts) >= 1 => AllOk(Len(posts) - 1)
      /\ tres.state = "resolved" => Len(posts) = Len(txt) /\ AllOk(Len(txt))
      /\ \A k \in 1..Len(settled) :
           settled[k].kind # "ok" =>
             /\ tres.state = "rejected"
             /\ ErrIsOf(tres.err, settled[k], posts[k])
             /\ Len(posts) = k
      /\ tres.state = "rejected" =>
           \/ Len(settled) = Len(posts) /\ Len(settled) >= 1
                /\ settled[Len(settled)].kind # "ok"
           \/ /\ tres.err.name = "URIError"
              /\ pending = 0
              /\ Len(posts) < Len(txt)
              /\ IsSurrogate(txt[Len(posts) + 1])

\* The second of three keypresses failed: the third was never sent.
C1_Witness ==
    /\ op = "text"
    /\ Len(txt) = 3
    /\ Len(posts) = 2
    /\ Len(settled) = 2
    /\ settled[1].kind = "ok"
    /\ settled[2].kind = "notok"
    /\ tres.state = "rejected"

\* The actions a chain of Commander calls stands for, in append order.
RECURSIVE ExpandChain(_)
ExpandChain(c) ==
    IF c = << >> THEN << >>
    ELSE LET h == Head(c) IN
      (CASE h.m = "key" -> [i \in 1..h.n |-> [a |-> "keypress", arg |-> h.arg, n |-> 0]]
         [] h.m = "text" -> <<[a |-> "text", arg |-> h.arg, n |-> 0]>>
         [] OTHER -> <<[a |-> "wait", arg |-> << >>, n |-> h.n]>>)
        \o ExpandChain(Tail(c))

\* The POSTs an action makes when it runs to completion.
PostsOf(act) ==
    CASE act.a = "keypress" -> <<KeypressPost(act.arg)>>
      [] act.a = "text" -> [i \in 1..Len(act.arg) |-> KeypressPost(LitOf(act.arg[i]))]
      [] OTHER -> << >>

RECURSIVE PostsOfAll(_)
PostsOfAll(acts) ==
    IF acts = << >> THEN << >> ELSE PostsOf(Head(acts)) \o PostsOfAll(Tail(acts))

\* The actions started before the latest one.
Earlier == SubSeq(started, 1, Len(started) - 1)

\* C2: what send() runs is the concatenation, in append order, of the chained
\* actions (a key method with count n being n keypresses of its key, text(str)
\* the client's text operation for str), and an action starts only once the
\* action before it has completed, pauses included.
C2_SendInAppendOrder ==
    op = "send" =>
      LET exp == ExpandChain(chain)
          before == PostsOfAll(Earlier)
          all == PostsOfAll(started)
      IN  /\ Len(started) <= Len(exp)
          /\ \A i \in 1..Len(started) : started[i] = exp[i]
          /\ cres.state = "resolved" => Len(started) = Len(exp)
          /\ Len(before) <= Len(posts) /\ Len(posts) <= Len(all)
          /\ \A i \in 1..Len(posts) : posts[i] = all[i]
          /\ AllOk(Len(before))
          /\ pending <= 1
          /\ waiting => started[Len(started)].a = "wait" /\ pending = 0

\* up(3), text("ok") and select() have all run, in that order.
C2_Witness ==
    /\ op = "send"
    /\ cres.state = "resolved"
    /\ chain = <<[m |-> "key", arg |-> KeyUp, n |-> 3],
                 [m |-> "text", arg |-> <<111, 107>>, n |-> 0],
                 [m |-> "key", arg |-> KeySelect, n |-> 1]>>
    /\ Len(posts) = 6

\* C3: when an action run by send() fails, send() fails with the error of
\* that first failing action and no action appended after it is ever started;
\* send() resolves only if every pending action completed successfully.
C3_SendFailsFast ==
    op = "send" =>
      /\ \A k \in 1..Len(settled) :
           settled[k].kind # "ok" =>
             /\ k = Len(posts) /\ pending = 0
             /\ Len(PostsOfAll(Earlier)) < k
             /\ cres.state \in {"pending", "rejected"}
             /\ cres.state = "rejected" => ErrIsOf(cres.err, settled[k], posts[k])
             /\ cres.state = "pending" =>
                  arun /\ tres.state = "rejected" /\ started[Len(started)].a = "text"
      /\ cres.state = "resolved" =>
           /\ started = ExpandChain(chain)
           /\ Len(posts) = Len(PostsOfAll(started))
           /\ AllOk(Len(posts))
           /\ ~waiting /\ pending = 0
      /\ cres.state = "rejected" =>
           /\ Len(started) >= 1
           /\ \/ Len(settled) = Len(posts) /\ Len(settled) >= 1
                   /\ settled[Len(settled)].kind # "ok"
              \/ /\ cres.err.name = "URIError"
                 /\ pending = 0
                 /\ started[Len(started)].a = "text"
                 /\ Len(posts) < Len(PostsOfAll(started))
                 /\ IsSurrogate(started[Len(started)].arg[
                        Len(posts) - Len(PostsOfAll(Earlier)) + 1])

\* select() failed after up(3): the text appended after it never started.
C3_Witness ==
    /\ op = "send"
    /\ cres.state = "rejected"
    /\ chain = <<[m |-> "key", arg |-> KeyUp, n |-> 3],
                 [m |-> "key", arg |-> KeySelect, n |-> 1],
                 [m |-> "text", arg |-> <<111, 107>>, n |-> 0]>>
    /\ Len(started) = 4
    /\ Len(settled) = 4
    /\ settled[4].kind = "notok"

\* The characters of a key: a high surrogate followed by a low one is one
\* character (an emoji), any other code unit is a character of its own.
RECURSIVE NumChars(_)
NumChars(key) ==
    IF key = << >> THEN 0
    ELSE IF /\ Len(key) >= 2
            /\ key[1] \in 55296..56319
            /\ key[2] \in 56320..57343
      THEN 1 + NumChars(SubSeq(key, 3, Len(key)))
      ELSE 1 + NumChars(Tail(key))

\* Lit_ followed by the percent-encoding of the one character of key.
LitOfChar(key) == <<76, 105, 116, 95>> \o encodeURIComponent(key).val

\* C9, as stated: keypress, keydown and keyup with key k each issue exactly
\* one POST, to {address}/{keypress|keydown|keyup}/{k'}: k' is Lit_ and the
\* percent-encoded character when k is a single character, and k itself when
\* k has more than one character.
C9_KeyEndpointPerCharacter ==
    (op = "key" /\ NumChars(kcall.key) >= 1) =>
      /\ Len(posts) = 1
      /\ posts[1].ip = ClientIp
      /\ posts[1].func = kcall.func
      /\ posts[1].key = IF NumChars(kcall.key) = 1 THEN LitOfChar(kcall.key)
                                                   ELSE kcall.key

\* C9, amended: keypress, keydown and keyup with key k each issue exactly one
\* POST, to {address}/{keypress|keydown|keyup}/{k'}, except that a k which
\* is one unpaired surrogate code unit makes the call throw URIError with no
\* POST issued.  k' is Lit_ and the percent-encoded character when k is one
\* UTF-16 code unit, and k itself, not encoded, when k has any other length:
\* a named key code, a character of two code units (an emoji), or the empty
\* string.
C9_KeyEndpoint ==
    op = "key" =>
      IF Len(kcall.key) = 1 /\ IsSurrogate(kcall.key[1])
        THEN /\ posts = << >>
             /\ pending = 0
             /\ kres.state = "threw"
             /\ kres.err.name = "URIError"
        ELSE /\ Len(posts) = 1
             /\ posts[1].ip = ClientIp
             /\ posts[1].func = kcall.func
             /\ posts[1].key = IF Len(kcall.key) = 1 THEN LitOf(kcall.key[1])
                                                     ELSE kcall.key
             /\ kres.state # "threw"
             /\ kcall.key = <<97>> => posts[1].key = <<76, 105, 116, 95, 97>>
             /\ kcall.key = <<32>> => posts[1].key = <<76, 105, 116, 95, 37, 50, 48>>
             /\ kcall.key = KeySelect => posts[1].key = <<83, 101, 108, 101, 99, 116>>
             /\ kcall.key = <<55357, 56832>> => posts[1].key = <<55357, 56832>>
             /\ kcall.key = << >> => posts[1].key = << >>

\* keypress of an emoji went out with the two code units as they are, no Lit_
\* and no percent-encoding, and was answered.
C9_Witness ==
    /\ op = "key"
    /\ kcall = [func |-> "keypress", key |-> <<55357, 56832>>]
    /\ kres.state = "resolved"
    /\ posts = <<[ip |-> ClientIp, func |-> "keypress", key |-> <<55357, 56832>>]>>

DiscoverSettled == op = "discover" /\ dres.state \in {"resolved", "rejected"}

FirstResponder == [kind |-> "single", addrs |-> <<found[1]>>]

\* C4: with waitForAll false (as in Client.discover, which passes none)
\* discover resolves with the first responder's single address the moment that
\* response arrives; with waitForAll true it does not resolve before the
\* timeout has elapsed and then resolves with the list of the addresses
\* collected, a list even when there is one.
C4_DiscoverModes ==
    op = "discover" =>
      /\ (found # << >> /\ (~dcall.waitForAll \/ dcall.via = "client")) =>
           /\ dres.state = "resolved"
           /\ dres.value = FirstResponder
           /\ Len(found) = 1
           /\ marks.done = marks.first
           /\ client.made => client.ip = FirstResponder
      /\ (dres.state = "resolved" /\ dcall.waitForAll) =>
           /\ clock = dcall.timeout
           /\ marks.done = dcall.timeout
           /\ dres.value = [kind |-> "list", addrs |-> found]
      /\ (dres.state = "resolved" /\ ~dcall.waitForAll) => found # << >>

\* Waiting for all with one device on the network: a list of one address,
\* at the timeout.
C4_Witness ==
    /\ op = "discover"
    /\ dcall.waitForAll
    /\ dcall.timeout = 2
    /\ dres.state = "resolved"
    /\ marks.first = 0
    /\ dres.value = [kind |-> "list", addrs |-> <<"http://192.168.1.17:8060">>]

\* C5: with waitForAll false and no responder discover fails with
\* NoDevicesFoundError, raised only once the timeout has elapsed and never
\* after a response arrived; a failure before that is the transport's, which
\* is a different error.
C5_NoDevicesOnlyAtTimeout ==
    (op = "discover" /\ ~dcall.waitForAll) =>
      /\ dres.err.name = "NoDevicesFoundError" =>
           /\ dres.state = "rejected"
           /\ found = << >>
           /\ clock = dcall.timeout
           /\ marks.done = dcall.timeout
      /\ (DiscoverSettled /\ found = << >>) =>
           /\ dres.state = "rejected"
           /\ dres.err.name \in {"NoDevicesFoundError", "TransportError"}
           /\ marks.done < dcall.timeout => dres.err.name = "TransportError"
      /\ found # << >> => dres.state # "rejected"

\* Nobody answered within two ticks.
C5_Witness ==
    /\ op = "discover"
    /\ ~dcall.waitForAll
    /\ dcall.timeout = 2
    /\ silent = {}
    /\ found = << >>
    /\ clock = 2
    /\ dres = Settled("rejected", NoDevicesFoundError, NoResult)

\* C6: a discover call has closed its listening socket by the time its
\* promise settles, whichever way it settles (first response, timeout with
\* or without results, transport error), and holds it open until then.
C6_SocketReleased ==
    op = "discover" =>
      /\ DiscoverSettled => sock = "closed"
      /\ dres.state = "pending" => sock = "open"

\* Satisfied by a first response before the timeout: the socket is closed.
C6_Witness ==
    /\ DiscoverSettled
    /\ ~dcall.waitForAll
    /\ dres.state = "resolved"
    /\ clock < dcall.timeout
    /\ sock = "closed"

ActiveAnswered ==
    /\ op = "active"
    /\ ares.state # "pending"
    /\ aresp.kind = "ok"
    /\ aresp.wellformed

\* C7: Client.active() fails with the count error ("expected 1 active app",
\* the spec's ProtocolError) whenever the successful response holds a number
\* of <app> elements other than one, zero included.
C7_CountMismatchIsProtocolError ==
    (ActiveAnswered /\ Len(aresp.doc) # 1) =>
      /\ ares.state = "rejected"
      /\ ares.err.name = "Error"
      /\ ares.err.why = "expected 1 active app"

\* The attribute of an element as an optional value.
AttrOf(e, n) == IF n \in DOMAIN e.attrs THEN <<e.attrs[n]>> ELSE << >>

AppOf(e) ==
    [id |-> AttrOf(e, "id"),
     name |-> IF e.text = "" THEN << >> ELSE <<e.text>>,
     type |-> AttrOf(e, "type"),
     version |-> AttrOf(e, "version")]

\* C8 as first stated: with exactly one <app> element, active() returns null
\* if and only if the element lacks an id attribute, and otherwise the App
\* record of the element.
C8_NullIffNoIdAttribute ==
    (ActiveAnswered /\ Len(aresp.doc) = 1) =>
      /\ ares.state = "resolved"
      /\ ares.value.null <=> "id" \notin DOMAIN aresp.doc[1].attrs
      /\ ~ares.value.null => ares.value.app = AppOf(aresp.doc[1])

\* C8, amended: with exactly one <app> element, active() returns null if and
\* only if the element has no id attribute or an empty one; otherwise it
\* returns the App record whose id, type and version are the element's
\* attributes (absent ones undefined) and whose name is its text (undefined
\* when it has none).
C8_NullIffNoId ==
    (ActiveAnswered /\ Len(aresp.doc) = 1) =>
      /\ ares.state = "resolved"
      /\ ares.value.null <=>
           \/ "id" \notin DOMAIN aresp.doc[1].attrs
           \/ aresp.doc[1].attrs["id"] = ""
      /\ ~ares.value.null => ares.value.app = AppOf(aresp.doc[1])

\* <app id="12" type="appl">Netflix</app>
C8_Witness ==
    /\ ActiveAnswered
    /\ Len(aresp.doc) = 1
    /\ ~ares.value.null
    /\ ares.value.app = [id |-> <<"12">>, name |-> <<"Netflix">>,
                         type |-> <<"appl">>, version |-> << >>]

\* C10: Client.icon succeeds or fails as a unit: once its promise has
\* resolved with the path the whole body is in the file, and a failure while
\* streaming the body makes icon fail.
C10_IconAllOrNothing ==
    op = "icon" =>
      /\ ires.state = "resolved" =>
           ifile.stream = "finished" /\ ifile.written = iresp.chunks
      /\ ifile.stream = "failed" => ires.state = "rejected"

====
